---- MODULE Spec2Model ----
(***************************************************************************)
(* adafruit-7segment: the SevenSegment trait implemented for HT16K33       *)
(* (src/src/lib.rs).  The state is the in-memory display buffer of the     *)
(* HT16K33 driver; every trait method is one action that applies the       *)
(* whole method to the buffer.                                             *)
(*                                                                         *)
(* Numbers.  A float value is the dyadic rational m / Den; for these       *)
(* values every f32 product, sum and quotient the method computes while    *)
(* to_int_factor >= 1 is exact (or, when it is not, already far above      *)
(* too_big), so the model computes them in exact integer arithmetic.       *)
(* to_int_factor is always a power of base and is kept as its exponent.    *)
(* base.pow(fractional_digits) is computed as the u32 it is, byte by byte,  *)
(* so that its overflow is seen; the calls whose power overflows are made  *)
(* with the value 0.0 only, for which the rest of the method is exact (or  *)
(* panic before it).  In all other calls the power and display_number stay *)
(* below 2^31: no u32 wraps and no cast saturates.                         *)
(*                                                                         *)
(* Build profile.  u8 arithmetic that leaves 0..255 panics when the crate  *)
(* is built with overflow checks (the debug profile) and wraps otherwise   *)
(* (the release profile): overflow_checks is chosen once, in Init.         *)
(***************************************************************************)
EXTENDS Integers, Sequences, FiniteSets, TLC

VARIABLES
    buffer,           \* HT16K33 display buffer: row -> 8-bit mask
    prev_buffer,      \* the buffer when the last call started
    calls,            \* update_display_buffer calls of the last call, in order
    last,             \* the last call: [op, index, value, frac, base]
    result,           \* what the last call returned: Ok, an Error, or panic
    overflow_checks,  \* TRUE: built with overflow checks; FALSE: wrapping
    nops,             \* calls made so far
    i2c               \* the I2C bus: the display buffers written to the device

vars == <<buffer, prev_buffer, calls, last, result, overflow_checks, nops, i2c>>

(* ------------------------------ bounds -------------------------------- *)

MaxOps == 2       \* calls in one behaviour of Spec
MaxFrac == 3      \* requested fractional_digits are 0..MaxFrac
MaxNum == 32      \* dense float values are m / Den for m in -MaxNum..MaxNum
ValueBits == 2    \* Den = 2^ValueBits

(* ----------------------------- constants ------------------------------ *)

MINUS_SIGN == 64
DOT_BIT == 7
COLON_BIT == 1

\* fonts.rs: 0..F on a 7-segment digit, bit 0 = segment A .. bit 6 = G.
HEX_NUMBER_FONT_TABLE ==
    <<63, 6, 91, 79, 102, 109, 125, 7, 127, 111, 119, 124, 57, 94, 121, 113>>

Rows == 0 .. 15
Indexes == 0 .. 3          \* Index::One .. Index::Four as u8
Bases == 2 .. 16
Den == 2 ^ ValueBits

(* ------------------------------- bits --------------------------------- *)

Bit(x, i) == (x \div (2 ^ i)) % 2

WithBit(x, i, on) ==
    IF on THEN (IF Bit(x, i) = 1 THEN x ELSE x + 2 ^ i)
          ELSE (IF Bit(x, i) = 1 THEN x - 2 ^ i ELSE x)

(* --------------------------- the display ------------------------------ *)
\* The methods only ever call HT16K33::update_display_buffer(LedLocation
\* {row, common}, on).  A call is <<row, bit, on>>; a method's effect is the
\* sequence of its calls, applied to the buffer in order.

RECURSIVE RowAfter(_, _, _)
RowAfter(x, s, n) ==
    IF n = 0 THEN x ELSE WithBit(RowAfter(x, s, n - 1), s[n][2], s[n][3])

\* The buffer after the update_display_buffer calls of log, in order: each
\* call sets or clears one bit of its row.
update_display_buffer(buf, log) ==
    [r \in DOMAIN buf |->
        LET s == SelectSeq(log, LAMBDA c : c[1] = r)
        IN  RowAfter(buf[r], s, Len(s))]

set_bit(index, bit, on) ==
    LET index2 == index * 2
        row == (IF bit < 8 THEN index2 ELSE index2 + 1) % 16
    IN  <<row, bit % 8, on>>

\* Pos without the colon compensation: the addressing C10 rules out.
Pos_unshifted(index) == index

\* The colon compensation of update_bits and update_buffer_with_dot.
Pos(index) == IF index > 1 THEN index + 1 ELSE index

\* update_bits lighting the segments of the pattern without darkening the
\* others: the behaviour C12 rules out.
update_bits_set_only(index, bits) ==
    SelectSeq([k \in 1 .. 8 |-> set_bit(Pos(index), k - 1, Bit(bits, k - 1) = 1)],
              LAMBDA c : c[3])

\* update_bits over the segment bits 0..6 only, which would keep the dot: the
\* behaviour C9 rules out.
update_bits_segments(index, bits) ==
    [k \in 1 .. 7 |-> set_bit(Pos(index), k - 1, Bit(bits, k - 1) = 1)]

\* "for i in 0..8 { set_bit(display, pos, i, on) }": the calls, in order.
update_bits(index, bits) ==
    [k \in 1 .. 8 |-> set_bit(Pos(index), k - 1, Bit(bits, k - 1) = 1)]

\* update_buffer_with_digit; the caller checks value < 16 (the assert!).
draw_digit(index, value) == update_bits(index, HEX_NUMBER_FONT_TABLE[value + 1])

draw_dot(index, dot_on) == <<set_bit(Pos(index), DOT_BIT, dot_on)>>

draw_colon(colon_on) == <<set_bit(2, COLON_BIT, colon_on)>>

(* ----------------------------- characters ----------------------------- *)

AsciiChars == 0 .. 127
is_ascii_digit(c) == c \in 48 .. 57
is_ascii_hexdigit(c) == is_ascii_digit(c) \/ c \in 65 .. 70 \/ c \in 97 .. 102
to_ascii_uppercase(c) == IF c \in 97 .. 122 THEN c - 32 ELSE c

\* update_buffer_with_char blanking the digit before it refuses the
\* character: the behaviour C7 rules out.
draw_char_blanks_invalid(index, c) ==
    IF is_ascii_hexdigit(c)
    THEN LET val == IF is_ascii_digit(c) THEN c - 48
                    ELSE 10 + (to_ascii_uppercase(c) - 65)
         IN  [log |-> update_bits(index, HEX_NUMBER_FONT_TABLE[val + 1]),
              res |-> "Ok"]
    ELSE IF c = 45
    THEN [log |-> update_bits(index, MINUS_SIGN), res |-> "Ok"]
    ELSE [log |-> update_bits(index, 0), res |-> "NotValidChar"]

\* update_buffer_with_char taking a-f for no hex digits: the behaviour C11
\* rules out.
draw_char_upper_only(index, c) ==
    IF is_ascii_digit(c) \/ c \in 65 .. 70
    THEN LET val == IF is_ascii_digit(c) THEN c - 48 ELSE 10 + (c - 65)
         IN  [log |-> update_bits(index, HEX_NUMBER_FONT_TABLE[val + 1]),
              res |-> "Ok"]
    ELSE IF c = 45
    THEN [log |-> update_bits(index, MINUS_SIGN), res |-> "Ok"]
    ELSE [log |-> <<>>, res |-> "NotValidChar"]

\* update_buffer_with_char: [log, res]
draw_char(index, c) ==
    IF is_ascii_hexdigit(c)
    THEN LET val == IF is_ascii_digit(c) THEN c - 48
                    ELSE 10 + (to_ascii_uppercase(c) - 65)
         IN  [log |-> update_bits(index, HEX_NUMBER_FONT_TABLE[val + 1]),
              res |-> "Ok"]
    ELSE IF c = 45
    THEN [log |-> update_bits(index, MINUS_SIGN), res |-> "Ok"]
    ELSE [log |-> <<>>, res |-> "NotValidChar"]

(* ------------------------------- float -------------------------------- *)

Abs(x) == IF x < 0 THEN -x ELSE x

\* ((value * to_int_factor) + 0.5) as u32, for value = absm / Den and
\* to_int_factor = base^e (e < 0 once the factor has dropped below 1).
display_number_of(absm, base, e) ==
    IF e >= 0
    THEN LET f == base ^ e
         IN  (absm \div Den) * f + (2 * (absm % Den) * f + Den) \div (2 * Den)
    ELSE LET b == base ^ (0 - e)
         IN  (2 * absm + Den * b) \div (2 * Den * b)

\* The loop "while display_number >= too_big": fractional_digits is a u8, so
\* "fractional_digits -= 1" at 0 panics with overflow checks and wraps to 255
\* without.
RECURSIVE reduce(_, _, _, _, _, _)
reduce(absm, base, too_big, e, fractional_digits, checks) ==
    LET display_number == display_number_of(absm, base, e)
    IN  IF display_number < too_big
        THEN [panic |-> FALSE, exp |-> e,
              fractional_digits |-> fractional_digits,
              display_number |-> display_number]
        ELSE IF fractional_digits = 0
        THEN IF checks
             THEN [panic |-> TRUE, exp |-> e,
                   fractional_digits |-> fractional_digits,
                   display_number |-> display_number]
             ELSE reduce(absm, base, too_big, e - 1, 255, checks)
        ELSE reduce(absm, base, too_big, e - 1, fractional_digits - 1, checks)

\* impl From<u8> for Index: -1 stands for panic!("Invalid index > 3").
index_from(v) == IF v <= 3 THEN v ELSE -1

\* (index + (display_pos as u8)).into(): display_pos is an i8, the sum a u8
\* that overflows when display_pos < 0 and index > 0.  -1 stands for a panic.
index_at(index, display_pos, checks) ==
    LET sum == index + (display_pos % 256)
    IN  IF sum > 255
        THEN (IF checks THEN -1 ELSE index_from(sum - 256))
        ELSE index_from(sum)

\* The drawing state is [log, panic, display_pos].

\* The digit loop "while display_number != 0 || i <= fractional_digits".
RECURSIVE emit(_, _, _, _, _, _, _, _)
emit(log, index, base, fractional_digits, display_number, i, display_pos, checks) ==
    IF ~(display_number # 0 \/ i <= fractional_digits)
    THEN [log |-> log, panic |-> FALSE, display_pos |-> display_pos]
    ELSE LET digit_index == index_at(index, display_pos, checks)
         IN  IF digit_index < 0 \/ display_number % base >= 16
             THEN [log |-> log, panic |-> TRUE, display_pos |-> display_pos]
             ELSE LET digit == draw_digit(digit_index, display_number % base)
                      dot == IF fractional_digits # 0 /\ i = fractional_digits
                             THEN draw_dot(digit_index, TRUE)
                             ELSE <<>>
                  IN  emit(log \o digit \o dot, index, base, fractional_digits,
                           display_number \div base, i + 1, display_pos - 1,
                           checks)

\* "if display_number == 0 { write out the 0 } else { the digit loop }"
digits(index, base, fractional_digits, display_number, checks) ==
    LET display_pos == 3 - index
    IN  IF display_number = 0
        THEN [log |-> draw_digit(index_at(index, display_pos, checks), 0),
              panic |-> FALSE, display_pos |-> display_pos - 1]
        ELSE emit(<<>>, index, base, fractional_digits, display_number, 0,
                  display_pos, checks)

\* "if is_negative { add the minus sign }"
sign(st, index, is_negative, checks) ==
    IF st.panic \/ ~is_negative THEN st
    ELSE LET sign_index == index_at(index, st.display_pos, checks)
         IN  IF sign_index < 0
             THEN [st EXCEPT !.panic = TRUE]
             ELSE [log |-> st.log \o update_bits(sign_index, MINUS_SIGN),
                   panic |-> FALSE, display_pos |-> st.display_pos - 1]

\* No clearing of the unused cells: the behaviour C1 rules out.
clear_nothing(st, index, checks) == st

\* "while display_pos >= 0 { clear }"
RECURSIVE clear(_, _, _)
clear(st, index, checks) ==
    IF st.panic \/ st.display_pos < 0 THEN st
    ELSE clear([log |-> st.log
                        \o update_bits(index_at(index, st.display_pos, checks), 0),
                panic |-> FALSE, display_pos |-> st.display_pos - 1],
               index, checks)

\* a * b for two 16-bit halves, as <<high, low>> halves of the product.
mul_u16(a, b) ==
    LET x == a * (b % 256)
        y == a * (b \div 256)
        t == x + 256 * (y % 256)
    IN  <<t \div 65536 + y \div 256, t % 65536>>

\* A u32 is [hi, lo], its two 16-bit halves.  a * b on u32: the halves of the
\* product and whether it left the 32 bits (a panic with overflow checks, a
\* wrap without).
mul_u32(a, b) ==
    LET ll == mul_u16(a.lo, b.lo)
        lh == mul_u16(a.lo, b.hi)
        hl == mul_u16(a.hi, b.lo)
        hi == ll[1] + lh[2] + hl[2]
    IN  [hi |-> hi % 65536, lo |-> ll[2],
         wrapped |-> \/ hi >= 65536
                     \/ lh[1] # 0 \/ hl[1] # 0
                     \/ (a.hi # 0 /\ b.hi # 0)]

\* u32::pow, by squaring: acc * base for every set bit of exp.
RECURSIVE pow_loop(_, _, _, _)
pow_loop(b, acc, exp, wrapped) ==
    LET prod == mul_u32(acc, b)
        sq == mul_u32(b, b)
    IN  IF exp % 2 = 1
        THEN IF exp = 1
             THEN [hi |-> prod.hi, lo |-> prod.lo,
                   wrapped |-> wrapped \/ prod.wrapped]
             ELSE pow_loop(sq, prod, exp \div 2,
                           wrapped \/ prod.wrapped \/ sq.wrapped)
        ELSE pow_loop(sq, acc, exp \div 2, wrapped \/ sq.wrapped)

\* base.pow(exp): [hi, lo, wrapped]
pow(base, exp) ==
    IF exp = 0 THEN [hi |-> 0, lo |-> 1, wrapped |-> FALSE]
    ELSE pow_loop([hi |-> 0, lo |-> base], [hi |-> 0, lo |-> 1], exp, FALSE)

\* What the head of update_buffer_with_float and its reduction loop leave for
\* value = m / Den.  A power that overflows the u32 panics with overflow
\* checks; without, to_int_factor is the wrapped power.  For the value 0.0
\* display_number is 0 whatever to_int_factor is, the loop is not entered,
\* and to_int_factor < 1 exactly when the wrapped power is 0.
reduced(index, m, fractional_digits, base, checks) ==
    LET numeric_digits == (4 - index) - (IF m < 0 THEN 1 ELSE 0)
        to_int_factor == pow(base, fractional_digits)
    IN  IF to_int_factor.wrapped /\ checks
        THEN [panic |-> TRUE, exp |-> fractional_digits,
              fractional_digits |-> fractional_digits, display_number |-> 0]
        ELSE IF m = 0
        THEN [panic |-> FALSE,
              exp |-> IF to_int_factor.hi = 0 /\ to_int_factor.lo = 0 THEN -1
                      ELSE fractional_digits,
              fractional_digits |-> fractional_digits, display_number |-> 0]
        ELSE reduce(Abs(m), base, base ^ numeric_digits, fractional_digits,
                    fractional_digits, checks)

\* update_buffer_with_float drawing before it checks the scale: the
\* behaviour C3 rules out.
draw_float_check_after(index, m, fractional_digits, base, checks) ==
    LET r == reduced(index, m, fractional_digits, base, checks)
    IN  IF r.panic THEN [log |-> <<>>, res |-> "panic"]
        ELSE LET st == clear(sign(digits(index, base,
                                         IF r.exp < 0 THEN 0
                                         ELSE r.fractional_digits,
                                         r.display_number, checks),
                                  index, m < 0, checks),
                             index, checks)
             IN  [log |-> st.log,
                  res |-> IF r.exp < 0 THEN "InsufficientDigits"
                          ELSE IF st.panic THEN "panic" ELSE "Ok"]

\* update_buffer_with_float: [log, res]
draw_float(index, m, fractional_digits, base, checks) ==
    LET r == reduced(index, m, fractional_digits, base, checks)
    IN  IF r.panic THEN [log |-> <<>>, res |-> "panic"]
        ELSE IF r.exp < 0 THEN [log |-> <<>>, res |-> "InsufficientDigits"]
        ELSE LET st == clear(sign(digits(index, base, r.fractional_digits,
                                         r.display_number, checks),
                                  index, m < 0, checks),
                             index, checks)
             IN  [log |-> st.log, res |-> IF st.panic THEN "panic" ELSE "Ok"]

(* ------------------------------ actions ------------------------------- *)

Blank == [r \in Rows |-> 0]

NoCall == [op |-> "none", index |-> 0, value |-> 0, frac |-> 0, base |-> 0]

\* A method that sends the buffer it leaves to the device: the behaviour C13
\* rules out.
Return_flushes(op, log, res) ==
    /\ buffer' = update_display_buffer(buffer, log)
    /\ prev_buffer' = buffer
    /\ calls' = log
    /\ last' = op
    /\ result' = res
    /\ nops' = nops + 1
    /\ i2c' = Append(i2c, buffer')
    /\ UNCHANGED overflow_checks

\* The method's effect becomes the new state; a panic aborts the program.  The
\* methods reach the display only through update_display_buffer, which changes
\* the buffer in memory: nothing goes to the bus.
Return(op, log, res) ==
    /\ buffer' = update_display_buffer(buffer, log)
    /\ prev_buffer' = buffer
    /\ calls' = log
    /\ last' = op
    /\ result' = res
    /\ nops' = nops + 1
    /\ UNCHANGED <<overflow_checks, i2c>>

\* The caller's write_display_buffer(): one bus transaction carrying the
\* buffer as it is.
WriteDisplayBuffer ==
    /\ result # "panic"
    /\ i2c' = Append(i2c, buffer)
    /\ prev_buffer' = buffer
    /\ calls' = <<>>
    /\ last' = [op |-> "commit", index |-> 0, value |-> 0, frac |-> 0,
                base |-> 0]
    /\ result' = "Ok"
    /\ nops' = nops + 1
    /\ UNCHANGED <<buffer, overflow_checks>>

\* update_buffer_with_digit(index, value): assert!(value < 16), then draw.
UpdateBufferWithDigit(index, value) ==
    /\ result # "panic"
    /\ LET op == [op |-> "digit", index |-> index, value |-> value,
                  frac |-> 0, base |-> 0]
       IN  IF value < Len(HEX_NUMBER_FONT_TABLE)
           THEN Return(op, draw_digit(index, value), "Ok")
           ELSE Return(op, <<>>, "panic")

\* update_buffer_with_dot(index, dot_on); value is 1 for dot_on.
UpdateBufferWithDot(index, dot_on) ==
    /\ result # "panic"
    /\ Return([op |-> "dot", index |-> index,
               value |-> IF dot_on THEN 1 ELSE 0, frac |-> 0, base |-> 0],
              draw_dot(index, dot_on), "Ok")

\* update_buffer_with_colon(colon_on); value is 1 for colon_on.
UpdateBufferWithColon(colon_on) ==
    /\ result # "panic"
    /\ Return([op |-> "colon", index |-> 0,
               value |-> IF colon_on THEN 1 ELSE 0, frac |-> 0, base |-> 0],
              draw_colon(colon_on), "Ok")

\* update_buffer_with_char(index, value); value is the ASCII code.
UpdateBufferWithChar(index, c) ==
    /\ result # "panic"
    /\ LET r == draw_char(index, c)
       IN  Return([op |-> "char", index |-> index, value |-> c,
                   frac |-> 0, base |-> 0], r.log, r.res)

\* update_buffer_with_float(index, m / Den, fractional_digits, base)
UpdateBufferWithFloat(index, m, fractional_digits, base) ==
    /\ result # "panic"
    /\ LET r == draw_float(index, m, fractional_digits, base, overflow_checks)
       IN  Return([op |-> "float", index |-> index, value |-> m,
                   frac |-> fractional_digits, base |-> base], r.log, r.res)

(* ------------------------------ inputs -------------------------------- *)

DigitValues == 0 .. Len(HEX_NUMBER_FONT_TABLE)     \* the last one is too big
Fracs == 0 .. MaxFrac

\* Larger values, in units of 1 / Den: 99.5, 999.5, 9999.5, 12345, 100, 15.5,
\* 255.5, 4095.5.
LargeValues ==
    LET h == Den \div 2
    IN  {99 * Den + h, 999 * Den + h, 9999 * Den + h, 12345 * Den, 100 * Den,
         15 * Den + h, 255 * Den + h, 4095 * Den + h}

FloatValues == (-MaxNum .. MaxNum) \cup LargeValues \cup {-v : v \in LargeValues}

\* The inputs of the call sequences: 0, 8, b; 'b', '-', 'g'; -3.25 with 2
\* fractional digits, 9.75 with 1 and 12345 with 0, base 10.
SomeDigits == {0, 8, 11}
SomeChars == {98, 45, 103}
SomeFloats == {<<-(3 * Den + Den \div 4), 2, 10>>,
               <<9 * Den + (3 * Den) \div 4, 1, 10>>,
               <<12345 * Den, 0, 10>>}

\* Buffers that earlier calls leave: "8.8.:8.8." and "b-.F.1".
Lit ==
    update_display_buffer(Blank,
        draw_digit(0, 8) \o draw_dot(0, TRUE) \o draw_digit(1, 8)
        \o draw_dot(1, TRUE) \o draw_digit(2, 8) \o draw_dot(2, TRUE)
        \o draw_digit(3, 8) \o draw_dot(3, TRUE) \o draw_colon(TRUE))

Stale ==
    update_display_buffer(Blank,
        draw_char(0, 98).log \o draw_char(1, 45).log \o draw_dot(1, TRUE)
        \o draw_digit(2, 15) \o draw_dot(2, TRUE) \o draw_digit(3, 1))

PriorBuffers == {Blank, Lit, Stale}

(* --------------------------- specifications --------------------------- *)

\* After HT16K33::new: a cleared buffer.
Init ==
    /\ buffer = Blank
    /\ prev_buffer = Blank
    /\ calls = <<>>
    /\ last = NoCall
    /\ result = "none"
    /\ overflow_checks \in BOOLEAN
    /\ nops = 0
    /\ i2c = <<>>

\* Sequences of at most MaxOps calls.
DrawDigit ==
    /\ nops < MaxOps
    /\ \E index \in Indexes, value \in SomeDigits :
           UpdateBufferWithDigit(index, value)

SetDot ==
    /\ nops < MaxOps
    /\ \E index \in Indexes, dot_on \in BOOLEAN :
           UpdateBufferWithDot(index, dot_on)

SetColon ==
    /\ nops < MaxOps
    /\ \E colon_on \in BOOLEAN : UpdateBufferWithColon(colon_on)

DrawChar ==
    /\ nops < MaxOps
    /\ \E index \in Indexes, c \in SomeChars : UpdateBufferWithChar(index, c)

DrawFloat ==
    /\ nops < MaxOps
    /\ \E index \in Indexes, f \in SomeFloats :
           UpdateBufferWithFloat(index, f[1], f[2], f[3])

\* The caller commits the buffer between its calls.
Commit ==
    /\ nops < MaxOps
    /\ WriteDisplayBuffer

Next == DrawDigit \/ SetDot \/ SetColon \/ DrawChar \/ DrawFloat \/ Commit

Spec == Init /\ [][Next]_vars

\* One call, with every input of the bounded sets, on a buffer that earlier
\* calls left.
CallInit ==
    /\ buffer \in PriorBuffers
    /\ prev_buffer = buffer
    /\ calls = <<>>
    /\ last = NoCall
    /\ result = "none"
    /\ overflow_checks \in BOOLEAN
    /\ nops = 0
    /\ i2c = <<>>

CallDigit ==
    /\ nops = 0
    /\ \E index \in Indexes, value \in DigitValues :
           UpdateBufferWithDigit(index, value)

CallDot ==
    /\ nops = 0
    /\ \E index \in Indexes, dot_on \in BOOLEAN :
           UpdateBufferWithDot(index, dot_on)

CallColon ==
    /\ nops = 0
    /\ \E colon_on \in BOOLEAN : UpdateBufferWithColon(colon_on)

CallChar ==
    /\ nops = 0
    /\ \E index \in Indexes, c \in AsciiChars : UpdateBufferWithChar(index, c)

CallFloat ==
    /\ nops = 0
    /\ \E index \in Indexes, m \in FloatValues, f \in Fracs, base \in Bases :
           UpdateBufferWithFloat(index, m, f, base)

CallNext == CallDigit \/ CallDot \/ CallColon \/ CallChar \/ CallFloat

CallSpec == CallInit /\ [][CallNext]_vars

\* One update_buffer_with_float call on the cleared buffer, with every
\* fractional_digits a u8 holds for the value 0.0, and the requested ones of
\* CallSpec for other values.
MaxU8 == 255
ScaleValues == LargeValues \cup {-Den, Den}
ScaleInputs ==
    {<<0, f>> : f \in 0 .. MaxU8} \cup (ScaleValues \X Fracs)

ScaleFloat ==
    /\ nops = 0
    /\ \E index \in Indexes, in \in ScaleInputs, base \in Bases :
           UpdateBufferWithFloat(index, in[1], in[2], base)

ScaleNext == ScaleFloat

ScaleSpec == Init /\ [][ScaleNext]_vars

(* ------------------------- what the claims use ------------------------ *)

\* The buffer row of a logical digit, as the display is wired: digits on rows
\* 0, 2, 6, 8 and the colon on row 4.
LowRow(i) == CASE i = 0 -> 0 [] i = 1 -> 2 [] i = 2 -> 6 [] i = 3 -> 8
ColonRow == 4

Cell(b, i) == b[LowRow(i)]
Segments(x) == x % 128
Dot(x) == x \div 128

IsFloat == last.op = "float"
Negative == last.value < 0
\* n: the slots from the start index, less the sign's.
Slots == (4 - last.index) - (IF Negative THEN 1 ELSE 0)

\* floor(|value| * base^f + 0.5) for value = m / Den
Rounded(m, base, f) ==
    LET a == Abs(m)
        p == base ^ f
    IN  (a \div Den) * p + (2 * (a % Den) * p + Den) \div (2 * Den)

\* The fractional digit counts, at most the requested one, that fit.
Fitting == {f \in 0 .. last.frac : Rounded(last.value, last.base, f) < last.base ^ Slots}
MostDigits == CHOOSE f \in Fitting : \A g \in Fitting : g <= f

RECURSIVE NumDigits(_, _)
NumDigits(n, base) == IF n = 0 THEN 0 ELSE 1 + NumDigits(n \div base, base)

Max(a, b) == IF a >= b THEN a ELSE b

\* The layout the float is to have: the cell of logical digit i.
Layout(i, f, number, base, negative, start) ==
    LET count == Max(NumDigits(number, base), f + 1)
        k == 3 - i
    IN  IF k < count
        THEN HEX_NUMBER_FONT_TABLE[((number \div (base ^ k)) % base) + 1]
             + (IF f > 0 /\ k = f THEN 128 ELSE 0)
        ELSE IF k = count /\ negative THEN 64
        ELSE 0

\* The cells the layout takes: the digits and the sign.
Taken(f, number, base, negative) ==
    Max(NumDigits(number, base), f + 1) + (IF negative THEN 1 ELSE 0)

(* ------------------------------- claims ------------------------------- *)

\* C1: when update_buffer_with_float returns Ok and the rounded display
\* number D is not 0, with f the largest count <= the requested
\* fractional_digits whose D = floor(|value| * base^f + 0.5) is below base^n,
\* the cells from index 3 leftwards hold the font patterns of D's digits (at
\* least f + 1 of them), the dot is lit on index 3 - f exactly when f > 0
\* and nowhere else, the minus pattern is on the next cell exactly when the
\* value is negative, and every cell left of that down to the start index
\* is blank.
C1_FloatLayout ==
    (IsFloat /\ result = "Ok") =>
        /\ Fitting # {}
        /\ LET f == MostDigits
               number == Rounded(last.value, last.base, f)
               taken == Taken(f, number, last.base, Negative)
               lowest == IF 4 - taken < last.index THEN 4 - taken ELSE last.index
           IN  number # 0 =>
                   /\ taken <= 4
                   /\ \A i \in lowest .. 3 :
                          Cell(buffer, i)
                              = Layout(i, f, number, last.base, Negative, last.index)

\* C1: a negative value whose precision was reduced, but not to 0, is laid
\* out over "8.8.:8.8.".
C1_Witness ==
    /\ IsFloat /\ result = "Ok" /\ Negative
    /\ prev_buffer = Lit
    /\ Fitting # {}
    /\ MostDigits > 0 /\ MostDigits < last.frac
    /\ Rounded(last.value, last.base, MostDigits) # 0

\* C2: a value whose integer part (rounded with no fractional digits) needs
\* more digits than the slots the start index and the sign leave makes
\* update_buffer_with_float return InsufficientDigits.
C2_Claim ==
    (IsFloat /\ Rounded(last.value, last.base, 0) >= last.base ^ Slots)
        => result = "InsufficientDigits"

\* C3: when update_buffer_with_float returns InsufficientDigits the buffer is
\* as it was before the call and no cell was written.
C3_FailedFloatIsNoOp ==
    (IsFloat /\ result = "InsufficientDigits")
        => (buffer = prev_buffer /\ calls = <<>>)

\* C3: InsufficientDigits returned on "8.8.:8.8.".
C3_Witness ==
    IsFloat /\ result = "InsufficientDigits" /\ prev_buffer = Lit

\* C4: once the scale check passes (to_int_factor >= 1 after the reduction
\* loop) the call returns Ok, the digits and the sign taking no more cells
\* than the start index leaves.
C4_Claim ==
    IsFloat =>
        LET r == reduced(last.index, last.value, last.frac, last.base,
                         overflow_checks)
            cells == IF r.display_number = 0
                     THEN 1 + (IF Negative THEN 1 ELSE 0)
                     ELSE Taken(r.fractional_digits, r.display_number,
                                last.base, Negative)
        IN  (~r.panic /\ r.exp >= 0)
                => (result = "Ok" /\ cells <= 4 - last.index)

\* C5: from start index Four every negative value and every value whose
\* rounded integer part needs more than one digit gets InsufficientDigits,
\* and only a value shown as one digit gets Ok.
C5_Claim ==
    (IsFloat /\ last.index = 3) =>
        LET wide == Rounded(last.value, last.base, 0) >= last.base
        IN  /\ (Negative \/ wide) => result = "InsufficientDigits"
            /\ result = "Ok" => (~Negative /\ ~wide)

\* C6: update_buffer_with_float leaves the cells of the digits left of its
\* start index, and the colon cell, as they were.
C6_Claim ==
    IsFloat =>
        /\ \A i \in 0 .. (last.index - 1) : Cell(buffer, i) = Cell(prev_buffer, i)
        /\ buffer[ColonRow] = prev_buffer[ColonRow]

ValidChars == (48 .. 57) \cup (65 .. 70) \cup (97 .. 102) \cup {45}

\* C7: update_buffer_with_char returns Ok for 0-9, A-F, a-f and '-', and for
\* every other ASCII character returns NotValidChar and writes nothing.
C7_CharValidation ==
    last.op = "char" =>
        IF last.value \in ValidChars
        THEN result = "Ok"
        ELSE result = "NotValidChar" /\ buffer = prev_buffer /\ calls = <<>>

\* C7: 'g' refused on "8.8.:8.8.".
C7_Witness ==
    /\ last.op = "char" /\ last.value = 103
    /\ result = "NotValidChar" /\ prev_buffer = Lit

Addresses == {<<calls[k][1], calls[k][2]>> : k \in 1 .. Len(calls)}

\* C8: a digit update writes exactly the 16 addresses of its slot: the 8 bits
\* of row 2 * slot and the 8 bits of row 2 * slot + 1.
C8_Claim ==
    (last.op \in {"digit", "char"} /\ result = "Ok") =>
        /\ Addresses = {<<r, b>> : r \in {LowRow(last.index), LowRow(last.index) + 1},
                                   b \in 0 .. 7}
        /\ Cardinality(Addresses) = 16

\* C9, as claimed: drawing a digit or a character leaves the dot bit of its
\* cell as it was, and setting the dot leaves the segment bits as they were.
C9_Claim ==
    /\ last.op \in {"digit", "char"} =>
           Dot(Cell(buffer, last.index)) = Dot(Cell(prev_buffer, last.index))
    /\ last.op = "dot" =>
           Segments(Cell(buffer, last.index)) = Segments(Cell(prev_buffer, last.index))

\* C9, amended: drawing a digit or a character writes all of bits 0..7 of its
\* cell, so the dot bit is cleared whatever it was; update_buffer_with_dot
\* sets the dot bit as asked and changes nothing else.
C9_DigitClearsDot ==
    /\ (last.op \in {"digit", "char"} /\ result = "Ok") =>
           Dot(Cell(buffer, last.index)) = 0
    /\ last.op = "dot" =>
           /\ Segments(Cell(buffer, last.index))
                  = Segments(Cell(prev_buffer, last.index))
           /\ Dot(Cell(buffer, last.index)) = last.value
           /\ \A r \in Rows \ {LowRow(last.index)} : buffer[r] = prev_buffer[r]

\* C9: a digit drawn on a cell whose dot was lit.
C9_Witness ==
    /\ last.op = "digit" /\ result = "Ok"
    /\ Dot(Cell(prev_buffer, last.index)) = 1

\* C10: a digit, character or dot call on logical index 0, 1, 2, 3 writes only
\* rows of slot 0, 1, 3, 4, and update_buffer_with_colon only bit 1 of row 4.
C10_Addressing ==
    /\ last.op \in {"digit", "char", "dot"} =>
           LET own == {LowRow(last.index), LowRow(last.index) + 1}
           IN  /\ \A r \in Rows \ own : buffer[r] = prev_buffer[r]
               /\ \A k \in 1 .. Len(calls) : calls[k][1] \in own
    /\ last.op = "colon" =>
           /\ \A r \in Rows \ {ColonRow} : buffer[r] = prev_buffer[r]
           /\ \A b \in (0 .. 7) \ {1} :
                  Bit(buffer[ColonRow], b) = Bit(prev_buffer[ColonRow], b)
           /\ Bit(buffer[ColonRow], 1) = last.value
           /\ calls = << <<ColonRow, 1, last.value = 1>> >>

\* C10: a digit drawn at logical index 2 while the colon is lit.
C10_Witness ==
    /\ last.op = "digit" /\ last.index = 2 /\ result = "Ok"
    /\ prev_buffer[ColonRow] = 2
    /\ buffer[6] # prev_buffer[6]

\* The numeric value of a hex character: '0'..'9', 'A'..'F', 'a'..'f'.
HexValue(c) ==
    CASE c \in 48 .. 57 -> c - 48
      [] c \in 65 .. 70 -> c - 55
      [] c \in 97 .. 102 -> c - 87

\* C11: drawing a hex character leaves the buffer that update_buffer_with_digit
\* with the character's numeric value leaves from the same buffer (so a-f and
\* A-F give the same buffer), its cell holding that value's font pattern; '-'
\* leaves the pattern 0x40 in its cell and every other row as it was.
C11_CharAgreesWithDigit ==
    last.op = "char" =>
        /\ last.value \in (48 .. 57) \cup (65 .. 70) \cup (97 .. 102) =>
               /\ result = "Ok"
               /\ buffer = update_display_buffer(prev_buffer,
                               draw_digit(last.index, HexValue(last.value)))
               /\ Cell(buffer, last.index)
                      = HEX_NUMBER_FONT_TABLE[HexValue(last.value) + 1]
        /\ last.value = 45 =>
               /\ result = "Ok"
               /\ Cell(buffer, last.index) = 64
               /\ \A r \in Rows \ {LowRow(last.index)} : buffer[r] = prev_buffer[r]

\* C11: 'a' drawn over "b-.F.1" on a cell that held something else.
C11_Witness ==
    /\ last.op = "char" /\ last.value = 97 /\ result = "Ok"
    /\ prev_buffer = Stale
    /\ Cell(buffer, last.index) = 119
    /\ Cell(prev_buffer, last.index) # 119

\* C12: after update_buffer_with_digit(index, v), v in 0..15, on any buffer,
\* the digit's cell holds the font pattern of v whatever it held before, and
\* the same call made again leaves the buffer as it is.
C12_DigitIdempotent ==
    (last.op = "digit" /\ last.value \in 0 .. 15) =>
        /\ result = "Ok"
        /\ Cell(buffer, last.index) = HEX_NUMBER_FONT_TABLE[last.value + 1]
        /\ update_display_buffer(buffer, draw_digit(last.index, last.value))
               = buffer
        /\ update_display_buffer(buffer, calls) = buffer

\* C12: b drawn over "8.8.:8.8.", where segments and the dot were lit that b
\* does not light.
C12_Witness ==
    /\ last.op = "digit" /\ last.value = 11 /\ result = "Ok"
    /\ prev_buffer = Lit
    /\ Cell(buffer, last.index) = 124

Drawing == {"digit", "dot", "colon", "char", "float"}

\* C13: a call of update_buffer_with_digit, _dot, _colon, _char or _float,
\* whatever it returns, issues no bus transaction: the bus carries only what
\* the caller's own write_display_buffer calls sent.
C13_NoCommit == [][last'.op \in Drawing => i2c' = i2c]_vars

\* C13: the caller committed, then a call changed the buffer: the one
\* transaction on the bus still carries the buffer as it was.
C13_Witness ==
    /\ last.op \in Drawing
    /\ Len(i2c) = 1
    /\ buffer # i2c[1]

\* C14: when the display number of update_buffer_with_float, rounded with the
\* fractional digits left after any reduction, is 0, the call returns Ok with
\* the pattern of 0 and no dot at index 3 (no zero padding, whatever
\* fractional_digits was asked), the minus pattern at index 2 when the value
\* is negative, and every other cell down to the start index blank.
C14_Claim ==
    (IsFloat /\ Fitting # {} /\ Rounded(last.value, last.base, MostDigits) = 0) =>
        /\ result = "Ok"
        /\ Cell(buffer, 3) = HEX_NUMBER_FONT_TABLE[1]
        /\ Negative => Cell(buffer, 2) = 64
        /\ \A i \in last.index .. (IF Negative THEN 1 ELSE 2) : Cell(buffer, i) = 0

\* The number a u32 below 2^31 is.
ValueOf(v) == v.hi * 65536 + v.lo

\* C15: for every base 2..16 and every requested fractional_digits 0..255 the
\* initial scale base.pow(fractional_digits) is base^fractional_digits, the
\* 32-bit power neither overflowing nor wrapping, the limit is
\* base^numeric_digits, and the reduction loop never takes the u8
\* fractional_digits below 0: it ends with at most the requested count.
C15_Claim ==
    IsFloat =>
        LET to_int_factor == pow(last.base, last.frac)
            too_big == pow(last.base, Slots)
            r == reduced(last.index, last.value, last.frac, last.base,
                         overflow_checks)
        IN  /\ ~to_int_factor.wrapped
            /\ ~too_big.wrapped /\ ValueOf(too_big) = last.base ^ Slots
            /\ ~r.panic /\ r.fractional_digits <= last.frac

====
